---- MODULE Spec2Model ----
(***************************************************************************)
(* Subscription lifecycle of the broadband portal (src/app.py).            *)
(*                                                                         *)
(* The three MongoDB collections are sequences in insertion order.  Every  *)
(* browser session runs the whole script once per interaction: the         *)
(* module-level bootstrap_data() call, then the page function, whose reads *)
(* and whose button handler are separate storage operations.  A run of a   *)
(* dashboard page is therefore split into the step that reads and the      *)
(* step(s) of the handler that writes; steps of different sessions         *)
(* interleave.                                                             *)
(*                                                                         *)
(* Instants are integers (days); Null stands for None in a date field.  A  *)
(* read of the clock may find it advanced; an expired memo entry shows at  *)
(* the next call of the memoized function.  Display only fields            *)
(* (full_name, phone, created_at, desc) are not modelled.                  *)
(***************************************************************************)
EXTENDS Integers, Sequences, FiniteSets, TLC

\* timedelta(days=30), in clock units
Period == 30

\* The clock is observed in steps long enough to pass a billing period: a
\* read of the clock finds it where it was or one step later
Step == Period + 1

\* Bounds of the model: script runs started, and steps of the clock
MaxRuns == 3
MaxNow == 1

Null == -1
NoName == "None"

Sessions == {"s1", "s2", "s3"}
AllNames == {"alice", "bob", "admin"}
Usernames == {"alice", "bob"}
Emails == {"a@x.com", "b@x.com"}
RegPasswords == {"pw"}
LoginPasswords == {"pw", "admin123", "wrong"}

VARIABLES
    users,      \* users_collection
    plans,      \* plans_collection
    subs,       \* subscriptions_collection
    nextId,     \* the next ObjectId of subscriptions_collection
    now,        \* datetime.utcnow()
    planCache,  \* memoized result of get_all_plans(): <<>> or <<listing>>
    userCache,  \* memoized results of get_user_data(username)
    session,    \* per browser session: st.session_state and the running script
    runs,       \* number of script runs started so far
    op,         \* history: the handler that ended a run last, its session, its record
    deleted     \* history: plan names deleted and not added again since

vars == <<users, plans, subs, nextId, now, planCache, userCache, session, runs, op, deleted>>

----------------------------------------------------------------------------
\* Storage primitives (pymongo)

Min(S) == CHOOSE x \in S : \A y \in S : x <= y

\* the first document at one of the positions I: <<>> is None, <<d>> a document
First(coll, I) == IF I = {} THEN <<>> ELSE <<coll[Min(I)]>>

\* the collection without its first document at one of the positions I
RemoveFirst(coll, I) ==
    IF I = {} THEN coll
    ELSE SubSeq(coll, 1, Min(I) - 1) \o SubSeq(coll, Min(I) + 1, Len(coll))

\* users_collection.find_one({"username": username})
find_one_username(coll, username) ==
    First(coll, {i \in 1..Len(coll) : coll[i].username = username})

\* variant: a record whose end_date has passed does not count as Active
find_one_active_Unexpired(coll, email) ==
    First(coll, {i \in 1..Len(coll) : /\ coll[i].email = email
                                      /\ coll[i].status = "Active"
                                      /\ coll[i].end_date >= now})

\* subscriptions_collection.find_one({"email": email, "status": "Active"})
find_one_active(coll, email) ==
    First(coll, {i \in 1..Len(coll) : coll[i].email = email /\ coll[i].status = "Active"})

\* subscriptions_collection.find({"email": email})
find_email(coll, email) == SelectSeq(coll, LAMBDA d : d.email = email)

\* users_collection.find({"role": role})
find_role(coll, role) == SelectSeq(coll, LAMBDA d : d.role = role)

\* plans_collection.delete_one({"name": name})
delete_one_name(coll, name) ==
    RemoveFirst(coll, {i \in 1..Len(coll) : coll[i].name = name})

\* users_collection.delete_one({"username": username})
delete_one_username(coll, username) ==
    RemoveFirst(coll, {i \in 1..Len(coll) : coll[i].username = username})

\* variant: delete_one in the place of delete_many
delete_many_username_One(coll, username) ==
    RemoveFirst(coll, {i \in 1..Len(coll) : coll[i].username = username})

\* subscriptions_collection.delete_many({"username": username})
delete_many_username(coll, username) ==
    SelectSeq(coll, LAMBDA d : d.username # username)

\* variant: the filter on _id is missing
SetEndDate_NoFilter(coll, id, e) ==
    [i \in 1..Len(coll) |-> [coll[i] EXCEPT !.end_date = e]]

\* variant: the period is added to the stored end_date, not to the clock
SetEndDate_Extend(coll, id, e) ==
    [i \in 1..Len(coll) |->
        IF coll[i]._id = id
        THEN [coll[i] EXCEPT !.end_date = coll[i].end_date + Period] ELSE coll[i]]

\* update_one({"_id": id}, {"$set": {"end_date": e}})
SetEndDate(coll, id, e) ==
    [i \in 1..Len(coll) |->
        IF coll[i]._id = id THEN [coll[i] EXCEPT !.end_date = e] ELSE coll[i]]

\* variant: end_date is not part of the $set
SetStatusEndDate_KeepEnd(coll, id, st, e) ==
    [i \in 1..Len(coll) |->
        IF coll[i]._id = id THEN [coll[i] EXCEPT !.status = st] ELSE coll[i]]

\* variant: the oldest Queued record of the same email takes the freed slot
SetStatusEndDate_Promote(coll, id, st, e) ==
    [i \in 1..Len(coll) |->
        IF coll[i]._id = id
        THEN [coll[i] EXCEPT !.status = st, !.end_date = e]
        ELSE IF /\ coll[i].status = "Queued"
                /\ \E k \in 1..Len(coll) : coll[k]._id = id /\ coll[k].status = "Active"
                                             /\ coll[k].email = coll[i].email
                /\ \A j \in 1..(i - 1) : coll[j].status # "Queued"
             THEN [coll[i] EXCEPT !.status = "Active", !.start_date = e,
                                  !.end_date = e + Period]
             ELSE coll[i]]

\* update_one({"_id": id}, {"$set": {"status": st, "end_date": e}})
SetStatusEndDate(coll, id, st, e) ==
    [i \in 1..Len(coll) |->
        IF coll[i]._id = id
        THEN [coll[i] EXCEPT !.status = st, !.end_date = e] ELSE coll[i]]

\* variant: the filter also asks for status Active
SetStatusByPlan_ActiveOnly(coll, name, st) ==
    [i \in 1..Len(coll) |->
        IF coll[i].plan = name /\ coll[i].status = "Active"
        THEN [coll[i] EXCEPT !.status = st] ELSE coll[i]]

\* variant: the $set also blanks the reference to the deleted plan
SetStatusByPlan_Unset(coll, name, st) ==
    [i \in 1..Len(coll) |->
        IF coll[i].plan = name THEN [coll[i] EXCEPT !.status = st, !.plan = ""]
        ELSE coll[i]]

\* update_many({"plan": name}, {"$set": {"status": st}})
SetStatusByPlan(coll, name, st) ==
    [i \in 1..Len(coll) |->
        IF coll[i].plan = name THEN [coll[i] EXCEPT !.status = st] ELSE coll[i]]

Range(seq) == {seq[i] : i \in 1..Len(seq)}

\* cursor.sort("start_date", -1): the latest start_date first, None last;
\* documents of equal start_date stay in natural order (every reader of the
\* result below either sorts again or takes any of the equal ones)
sort_start_date(seq) ==
    LET before(i, j) == \/ seq[i].start_date > seq[j].start_date
                        \/ seq[i].start_date = seq[j].start_date /\ i < j
        pos(i) == Cardinality({j \in 1..Len(seq) : before(j, i)}) + 1
    IN [k \in 1..Len(seq) |-> seq[CHOOSE i \in 1..Len(seq) : pos(i) = k]]

\* variant: sorted(seq, key=lambda x: x.get('_id'), reverse=True)
sorted_by_id_Reverse(seq) ==
    LET before(i, j) == \/ seq[i]._id > seq[j]._id
                        \/ seq[i]._id = seq[j]._id /\ i < j
        pos(i) == Cardinality({j \in 1..Len(seq) : before(j, i)}) + 1
    IN [k \in 1..Len(seq) |-> seq[CHOOSE i \in 1..Len(seq) : pos(i) = k]]

\* sorted(seq, key=lambda x: x.get('_id')), a stable sort
sorted_by_id(seq) ==
    LET before(i, j) == \/ seq[i]._id < seq[j]._id
                        \/ seq[i]._id = seq[j]._id /\ i < j
        pos(i) == Cardinality({j \in 1..Len(seq) : before(j, i)}) + 1
    IN [k \in 1..Len(seq) |-> seq[CHOOSE i \in 1..Len(seq) : pos(i) = k]]

----------------------------------------------------------------------------
\* Passwords

hash_password(password) == <<"bcrypt", password>>

check_password(password, hashed) == hashed = hash_password(password)

----------------------------------------------------------------------------
\* bootstrap_data(), called at module level on every run of the script

AdminUser ==
    [username |-> "admin", email |-> "admin@broadband.com",
     password |-> hash_password("admin123"), role |-> "admin"]

DefaultPlans ==
    << [name |-> "Starter Plan", price |-> "$10", speed |-> "50 Mbps",
        category |-> "Basic", data |-> "100 GB/month"],
       [name |-> "Pro Plan", price |-> "$25", speed |-> "200 Mbps",
        category |-> "Standard", data |-> "Unlimited"],
       [name |-> "Ultra Plan", price |-> "$50", speed |-> "1 Gbps",
        category |-> "Premium", data |-> "Unlimited"] >>

BootUsers(U) == IF Len(U) = 0 THEN <<AdminUser>> ELSE U

BootPlans(P) == IF Len(P) = 0 THEN DefaultPlans ELSE P

----------------------------------------------------------------------------
\* Session state and the locals of the running script

IdleLocals ==
    [pc |-> "idle", nav |-> "", user |-> <<>>, plist |-> <<>>, view |-> <<>>,
     ulist |-> <<>>, arg |-> <<>>, found |-> FALSE]

NewSession ==
    [page |-> "home", role |-> NoName, username |-> NoName] @@ IdleLocals

\* the script ends (or st.rerun() abandons it): the locals are dropped
EndRun(sr) == [k \in DOMAIN sr |-> IF k \in DOMAIN IdleLocals THEN IdleLocals[k] ELSE sr[k]]

\* the document inserted by register_page
UserDoc(username, email, password) ==
    [username |-> username, email |-> email, password |-> hash_password(password),
     role |-> "user"]

\* variant: every login lands on the admin dashboard
LoggedIn_Admin(sr, username, role) ==
    [sr EXCEPT !.role = role, !.page = "admin", !.username = username]

\* st.session_state after login_page accepted username, whose stored role is role
LoggedIn(sr, username, role) ==
    [sr EXCEPT !.role = role, !.page = role, !.username = username]

NoOp == [name |-> "none", s |-> "none", id |-> 0]

Did(name, s, id) == [name |-> name, s |-> s, id |-> id]

InitFresh ==
    /\ users = <<>>
    /\ plans = <<>>
    /\ subs = <<>>
    /\ nextId = 1
    /\ runs = 0
    /\ now = 0
    /\ planCache = <<>>
    /\ userCache = [u \in AllNames |-> <<>>]
    /\ session = [s \in Sessions |-> NewSession]
    /\ op = NoOp
    /\ deleted = {}

Init ==
    /\ \E e \in Emails :
          users = <<AdminUser, UserDoc("alice", "a@x.com", "pw"), UserDoc("bob", e, "pw")>>
    /\ plans = DefaultPlans
    /\ subs = <<>>
    /\ nextId = 1
    /\ runs = 0
    /\ now = 0
    /\ planCache = <<>>
    /\ userCache = [u \in AllNames |-> <<>>]
    /\ \E u \in Usernames : session = [s \in Sessions |->
          IF s = "s1" THEN LoggedIn(NewSession, "alice", "user")
          ELSE IF s = "s2" THEN LoggedIn(NewSession, u, "user")
          ELSE LoggedIn(NewSession, "admin", "admin")]
    /\ op = NoOp
    /\ deleted = {}

\* the portal after alice subscribed to the Pro Plan at instant 0
InitSubscribed ==
    /\ \E e \in Emails :
          users = <<AdminUser, UserDoc("alice", "a@x.com", "pw"), UserDoc("bob", e, "pw")>>
    /\ plans = DefaultPlans
    /\ subs = << [_id |-> 1, username |-> "alice", email |-> "a@x.com",
                  plan |-> DefaultPlans[2].name, price |-> DefaultPlans[2].price,
                  speed |-> DefaultPlans[2].speed, data |-> DefaultPlans[2].data,
                  status |-> "Active", start_date |-> 0, end_date |-> Period] >>
    /\ nextId = 2
    /\ runs = 0
    /\ now = 0
    /\ planCache = <<>>
    /\ userCache = [u \in AllNames |-> <<>>]
    /\ \E u \in Usernames : session = [s \in Sessions |->
          IF s = "s1" THEN LoggedIn(NewSession, "alice", "user")
          ELSE IF s = "s2" THEN LoggedIn(NewSession, u, "user")
          ELSE LoggedIn(NewSession, "admin", "admin")]
    /\ op = NoOp
    /\ deleted = {}

\* a deployment before or after its first script run and the registration
\* of alice; nobody is logged in, each browser is on one of the open pages
InitAuth ==
    /\ \/ users = <<>> /\ plans = <<>>
       \/ users = <<AdminUser, UserDoc("alice", "a@x.com", "pw")>> /\ plans = DefaultPlans
    /\ subs = <<>>
    /\ nextId = 1
    /\ runs = 0
    /\ now = 0
    /\ planCache = <<>>
    /\ userCache = [u \in AllNames |-> <<>>]
    /\ session \in [Sessions -> {[NewSession EXCEPT !.page = p] :
                                   p \in {"home", "login", "register"}}]
    /\ op = NoOp
    /\ deleted = {}

----------------------------------------------------------------------------
\* Memoization (st.cache_data(ttl=600)); expired: the entry's ttl has passed

\* get_user_data(username): the memoized value, or the user read from U
get_user_data(U, username, expired) ==
    IF userCache[username] # <<>> /\ ~expired THEN userCache[username][1]
    ELSE find_one_username(U, username)

\* get_all_plans(): the memoized listing, or the catalog P
get_all_plans(P, expired) == IF planCache # <<>> /\ ~expired THEN planCache[1] ELSE P

----------------------------------------------------------------------------
\* Pages without a login: nav_bar, login_page, register_page

Navigate(s, p) ==
    /\ session[s].pc = "idle"
    /\ session[s].page \in {"home", "login", "register"}
    /\ p # session[s].page
    /\ session' = [session EXCEPT ![s].page = p]
    /\ users' = BootUsers(users)
    /\ plans' = BootPlans(plans)
    /\ runs < MaxRuns
    /\ runs' = runs + 1
    /\ UNCHANGED <<subs, nextId, now, planCache, userCache, op, deleted>>

LoginResult(sr, U, username, password) ==
    LET user == find_one_username(U, username)
    IN IF user # <<>> /\ check_password(password, user[1].password)
       THEN LoggedIn(sr, username, user[1].role)
       ELSE sr

Login(s, username, password) ==
    /\ session[s].pc = "idle"
    /\ session[s].page = "login"
    /\ session' = [session EXCEPT
                      ![s] = LoginResult(session[s], BootUsers(users), username, password)]
    /\ users' = BootUsers(users)
    /\ plans' = BootPlans(plans)
    /\ runs < MaxRuns
    /\ runs' = runs + 1
    /\ UNCHANGED <<subs, nextId, now, planCache, userCache, op, deleted>>

\* the form is submitted: validation, then the lookup by username
RegisterCheck(s, username, email, password, filled) ==
    LET U == BootUsers(users)
    IN /\ session[s].pc = "idle"
       /\ session[s].page = "register"
       /\ session' = [session EXCEPT ![s] =
              IF filled /\ find_one_username(U, username) = <<>>
              THEN [@ EXCEPT !.pc = "register",
                             !.arg = <<UserDoc(username, email, password)>>]
              ELSE @]
       /\ users' = U
       /\ plans' = BootPlans(plans)
       /\ runs < MaxRuns
       /\ runs' = runs + 1
       /\ UNCHANGED <<subs, nextId, now, planCache, userCache, op, deleted>>

RegisterInsert(s) ==
    /\ session[s].pc = "register"
    /\ users' = Append(users, session[s].arg[1])
    /\ session' = [session EXCEPT ![s] = [EndRun(@) EXCEPT !.page = "login"]]
    /\ UNCHANGED <<plans, subs, nextId, now, planCache, userCache, runs, op, deleted>>

----------------------------------------------------------------------------
\* enhanced_user_dashboard: the reads at the top of the function

\* variant: "user = user or {}", so that user.get("email") is None instead
\* of raising when the lookup found nobody
UserRun_NoRaise(s, expiredUser, expiredPlans) ==
    LET U == BootUsers(users)
        P == BootPlans(plans)
        username == session[s].username
        user == get_user_data(U, username, expiredUser)
        listing == get_all_plans(P, expiredPlans)
    IN /\ session[s].pc = "idle"
       /\ session[s].page = "user"
       /\ users' = U
       /\ plans' = P
       /\ userCache' = [userCache EXCEPT ![username] = <<user>>]
       /\ planCache' = <<listing>>
       /\ session' = [session EXCEPT ![s] =
              IF user = <<>>
              THEN [@ EXCEPT !.pc = "run", !.user = <<[UserDoc("", "", "") EXCEPT !.role = ""]>>,
                             !.plist = listing, !.view = <<>>]
              ELSE [@ EXCEPT !.pc = "run", !.user = user, !.plist = listing,
                             !.view = sort_start_date(find_email(subs, user[1].email))]]
       /\ runs < MaxRuns
       /\ runs' = runs + 1
       /\ UNCHANGED <<subs, nextId, now, op, deleted>>

UserRun(s, expiredUser, expiredPlans) ==
    LET U == BootUsers(users)
        P == BootPlans(plans)
        username == session[s].username
        user == get_user_data(U, username, expiredUser)
        listing == get_all_plans(P, expiredPlans)
    IN /\ session[s].pc = "idle"
       /\ session[s].page = "user"
       /\ users' = U
       /\ plans' = P
       /\ userCache' = [userCache EXCEPT ![username] = <<user>>]
       /\ planCache' = <<listing>>
       /\ session' = [session EXCEPT ![s] =
              IF user = <<>>
              THEN @     \* user.get("email") raises on None: the run ends
              ELSE [@ EXCEPT !.pc = "run", !.user = user, !.plist = listing,
                             !.view = sort_start_date(find_email(subs, user[1].email))]]
       /\ runs < MaxRuns
       /\ runs' = runs + 1
       /\ UNCHANGED <<subs, nextId, now, op, deleted>>

\* the run ends without a storage handler (navigation, or no click)
Finish(s) ==
    /\ session[s].pc = "run"
    /\ session' = [session EXCEPT ![s] = EndRun(@)]
    /\ op' = Did("Finish", s, 0)
    /\ UNCHANGED <<users, plans, subs, nextId, now, planCache, userCache, runs, deleted>>

Logout(s) ==
    /\ session[s].pc = "run"
    /\ session' = [session EXCEPT ![s] =
          [EndRun(@) EXCEPT !.page = "home", !.role = NoName, !.username = NoName]]
    /\ op' = Did("Logout", s, 0)
    /\ UNCHANGED <<users, plans, subs, nextId, now, planCache, userCache, runs, deleted>>

----------------------------------------------------------------------------
\* enhanced_user_dashboard: what the page shows and its button handlers

\* str(s.get('status', '')).lower()
lower(status) ==
    CASE status = "Active" -> "active"
      [] status = "Queued" -> "queued"
      [] status = "Expired" -> "expired"
      [] status = "Cancelled" -> "cancelled"
      [] OTHER -> status

active_subs(view) == SelectSeq(view, LAMBDA d : lower(d.status) = "active")

queued_subs(view) == SelectSeq(view, LAMBDA d : lower(d.status) = "queued")

expired_subs(view) == SelectSeq(view, LAMBDA d : lower(d.status) = "expired")

\* the "Queued Subscriptions (Upcoming)" list of the subscriptions view
queued_subs_sorted(view) == sorted_by_id(queued_subs(view))

\* next((p for p in plans if p.get('name') == plan_name), None) is not None
plan_details(plist, plan_name) == \E i \in 1..Len(plist) : plist[i].name = plan_name

\* the candidates for active_subs[0] after .sort("start_date", -1)
FirstActive(view) ==
    {a \in Range(active_subs(view)) :
        \A b \in Range(active_subs(view)) : b.start_date <= a.start_date}

\* variant: the queued branch stamps the dates as well
SubscribeDoc_Dated(id, username, email, plan, active_plan, t0, t1) ==
    [_id |-> id, username |-> username, email |-> email, plan |-> plan.name,
     price |-> plan.price, speed |-> plan.speed, data |-> plan.data,
     status |-> IF active_plan THEN "Queued" ELSE "Active",
     start_date |-> t0, end_date |-> t1 + Period]

\* the document inserted by "Subscribe Now"; t0 and t1 are the two clock reads
SubscribeDoc(id, username, email, plan, active_plan, t0, t1) ==
    [_id |-> id, username |-> username, email |-> email, plan |-> plan.name,
     price |-> plan.price, speed |-> plan.speed, data |-> plan.data,
     status |-> IF active_plan THEN "Queued" ELSE "Active",
     start_date |-> IF active_plan THEN Null ELSE t0,
     end_date |-> IF active_plan THEN Null ELSE t1 + Period]

\* variant: the copy takes the status of the card as well
RenewalDoc_CopyStatus(id, sub) ==
    [_id |-> id, username |-> sub.username, email |-> sub.email, plan |-> sub.plan,
     price |-> sub.price, speed |-> sub.speed, data |-> sub.data,
     status |-> sub.status, start_date |-> Null, end_date |-> Null]

\* variant: the copy keeps the dates of the card
RenewalDoc_Dated(id, sub) ==
    [_id |-> id, username |-> sub.username, email |-> sub.email, plan |-> sub.plan,
     price |-> sub.price, speed |-> sub.speed, data |-> sub.data,
     status |-> "Queued", start_date |-> sub.start_date, end_date |-> sub.end_date]

\* the document inserted by "Renewal"
RenewalDoc(id, sub) ==
    [_id |-> id, username |-> sub.username, email |-> sub.email, plan |-> sub.plan,
     price |-> sub.price, speed |-> sub.speed, data |-> sub.data,
     status |-> "Queued", start_date |-> Null, end_date |-> Null]

SubscribeChoices == {"Pro Plan", "Ultra Plan"}

\* "Subscribe Now": the lookup of an Active record of this email
SubscribeCheck(s, i) ==
    LET sr == session[s]
    IN /\ sr.pc = "run"
       /\ sr.page = "user"
       /\ i \in 1..Len(sr.plist)
       /\ sr.plist[i].name \in SubscribeChoices
       /\ session' = [session EXCEPT ![s] =
              IF sr.user[1].email # ""
              THEN [@ EXCEPT !.pc = "subscribe", !.arg = <<sr.plist[i]>>,
                     !.found = find_one_active(subs, sr.user[1].email) # <<>>]
              ELSE EndRun(@)]
       /\ UNCHANGED <<users, plans, subs, nextId, now, planCache, userCache, runs, op, deleted>>

\* variant: the insert is conditional on the storage as it is at the write
SubscribeInsert_Guarded(s, d) ==
    LET sr == session[s]
        active_plan == find_one_active(subs, sr.user[1].email) # <<>>
    IN /\ sr.pc = "subscribe"
       /\ now + d <= MaxNow * Step
       /\ active_plan => d = 0
       /\ subs' = Append(subs, SubscribeDoc(nextId, sr.username, sr.user[1].email,
                                            sr.arg[1], active_plan, now, now + d))
       /\ nextId' = nextId + 1
       /\ now' = now + d
       /\ session' = [session EXCEPT ![s] = EndRun(@)]
       /\ op' = Did("SubscribeInsert", s, nextId)
       /\ UNCHANGED <<users, plans, planCache, userCache, runs, deleted>>

\* "Subscribe Now": the insert; the clock may advance by d between its two reads
SubscribeInsert(s, d) ==
    LET sr == session[s]
    IN /\ sr.pc = "subscribe"
       /\ now + d <= MaxNow * Step
       /\ sr.found => d = 0
       /\ subs' = Append(subs, SubscribeDoc(nextId, sr.username, sr.user[1].email,
                                            sr.arg[1], sr.found, now, now + d))
       /\ nextId' = nextId + 1
       /\ now' = now + d
       /\ session' = [session EXCEPT ![s] = EndRun(@)]
       /\ op' = Did("SubscribeInsert", s, nextId)
       /\ UNCHANGED <<users, plans, planCache, userCache, runs, deleted>>

\* "Renew Now" on the dashboard view
RenewNow(s, current_plan, d) ==
    LET sr == session[s]
    IN /\ sr.pc = "run"
       /\ sr.page = "user"
       /\ current_plan \in FirstActive(sr.view)
       /\ plan_details(sr.plist, current_plan.plan)
       /\ subs' = SetEndDate(subs, current_plan._id, now + d + Period)
       /\ session' = [session EXCEPT ![s] = EndRun(@)]
       /\ now + d <= MaxNow * Step
       /\ now' = now + d
       /\ op' = Did("RenewNow", s, current_plan._id)
       /\ UNCHANGED <<users, plans, nextId, planCache, userCache, runs, deleted>>

\* "Renewal" on an Active card of the subscriptions view
Renewal(s, sub) ==
    LET sr == session[s]
    IN /\ sr.pc = "run"
       /\ sr.page = "user"
       /\ sub \in Range(active_subs(sr.view))
       /\ plan_details(sr.plist, sub.plan)
       /\ subs' = Append(subs, RenewalDoc(nextId, sub))
       /\ nextId' = nextId + 1
       /\ session' = [session EXCEPT ![s] = EndRun(@)]
       /\ op' = Did("Renewal", s, sub._id)
       /\ UNCHANGED <<users, plans, now, planCache, userCache, runs, deleted>>

\* "Cancel" on an Active card of the subscriptions view
CancelActive(s, sub, d) ==
    LET sr == session[s]
    IN /\ sr.pc = "run"
       /\ sr.page = "user"
       /\ sub \in Range(active_subs(sr.view))
       /\ plan_details(sr.plist, sub.plan)
       /\ subs' = SetStatusEndDate(subs, sub._id, "Expired", now + d)
       /\ session' = [session EXCEPT ![s] = EndRun(@)]
       /\ now + d <= MaxNow * Step
       /\ now' = now + d
       /\ op' = Did("CancelActive", s, sub._id)
       /\ UNCHANGED <<users, plans, nextId, planCache, userCache, runs, deleted>>

\* "Cancel" on a Queued card of the subscriptions view
CancelQueued(s, sub, d) ==
    LET sr == session[s]
    IN /\ sr.pc = "run"
       /\ sr.page = "user"
       /\ sub \in Range(queued_subs(sr.view))
       /\ subs' = SetStatusEndDate(subs, sub._id, "Expired", now + d)
       /\ session' = [session EXCEPT ![s] = EndRun(@)]
       /\ now + d <= MaxNow * Step
       /\ now' = now + d
       /\ op' = Did("CancelQueued", s, sub._id)
       /\ UNCHANGED <<users, plans, nextId, planCache, userCache, runs, deleted>>

----------------------------------------------------------------------------
\* enhanced_admin_dashboard

\* plans offered to the "Add New Plan" form
NewPlans ==
    { [name |-> "Pro Plan", price |-> "$30", speed |-> "300 Mbps",
       category |-> "Standard", data |-> "Unlimited"],
      [name |-> "", price |-> "$5", speed |-> "10 Mbps",
       category |-> "Basic", data |-> "10 GB/month"] }

\* the reads of the user and plan management views
AdminRun(s, admin_nav) ==
    LET U == BootUsers(users)
        P == BootPlans(plans)
    IN /\ session[s].pc = "idle"
       /\ session[s].page = "admin"
       /\ users' = U
       /\ plans' = P
       /\ session' = [session EXCEPT ![s] =
              [@ EXCEPT !.pc = "run", !.nav = admin_nav,
                        !.plist = IF admin_nav = "plans" THEN P ELSE <<>>,
                        !.ulist = IF admin_nav = "users"
                                  THEN find_role(U, "user") ELSE <<>>]]
       /\ runs < MaxRuns
       /\ runs' = runs + 1
       /\ UNCHANGED <<subs, nextId, now, planCache, userCache, op, deleted>>

\* all([plan_name, description, price, speed, data])
AllFilled(plan) == plan.name # "" /\ plan.price # "" /\ plan.speed # "" /\ plan.data # ""

AddPlan(s, plan) ==
    /\ session[s].pc = "run"
    /\ session[s].page = "admin"
    /\ session[s].nav = "plans"
    /\ plans' = IF AllFilled(plan) THEN Append(plans, plan) ELSE plans
    /\ session' = [session EXCEPT ![s] = EndRun(@)]
    /\ op' = Did("AddPlan", s, 0)
    /\ deleted' = IF AllFilled(plan) THEN deleted \ {plan.name} ELSE deleted
    /\ UNCHANGED <<users, subs, nextId, now, planCache, userCache, runs>>

\* a button of row i is reached only if no widget key was used twice before it
Clickable(keys, i) ==
    /\ i \in 1..Len(keys)
    /\ \A j \in 1..i : \A k \in 1..(j - 1) : keys[k] # keys[j]

PlanKeys(plist) == [i \in 1..Len(plist) |-> plist[i].name]

UserKeys(ulist) == [i \in 1..Len(ulist) |-> ulist[i].username]

\* "Delete Plan": plans_collection.delete_one
DeletePlanOne(s, i) ==
    LET sr == session[s]
    IN /\ sr.pc = "run"
       /\ sr.page = "admin"
       /\ Clickable(PlanKeys(sr.plist), i)
       /\ plans' = delete_one_name(plans, sr.plist[i].name)
       /\ session' = [session EXCEPT ![s] =
              [@ EXCEPT !.pc = "delete_plan", !.arg = <<sr.plist[i].name>>]]
       /\ UNCHANGED <<users, subs, nextId, now, planCache, userCache, runs, op, deleted>>

\* "Delete Plan": subscriptions_collection.update_many
DeletePlanMany(s) ==
    /\ session[s].pc = "delete_plan"
    /\ subs' = SetStatusByPlan(subs, session[s].arg[1], "Cancelled")
    /\ session' = [session EXCEPT ![s] = EndRun(@)]
    /\ op' = Did("DeletePlanMany", s, 0)
    /\ deleted' = deleted \cup {session[s].arg[1]}
    /\ UNCHANGED <<users, plans, nextId, now, planCache, userCache, runs>>

\* "Delete User": users_collection.delete_one
DeleteUserOne(s, i) ==
    LET sr == session[s]
    IN /\ sr.pc = "run"
       /\ sr.page = "admin"
       /\ Clickable(UserKeys(sr.ulist), i)
       /\ users' = delete_one_username(users, sr.ulist[i].username)
       /\ session' = [session EXCEPT ![s] =
              [@ EXCEPT !.pc = "delete_user", !.arg = <<sr.ulist[i].username>>]]
       /\ UNCHANGED <<plans, subs, nextId, now, planCache, userCache, runs, op, deleted>>

\* "Delete User": subscriptions_collection.delete_many
DeleteUserMany(s) ==
    /\ session[s].pc = "delete_user"
    /\ subs' = delete_many_username(subs, session[s].arg[1])
    /\ session' = [session EXCEPT ![s] = EndRun(@)]
    /\ op' = Did("DeleteUserMany", s, 0)
    /\ UNCHANGED <<users, plans, nextId, now, planCache, userCache, runs, deleted>>

----------------------------------------------------------------------------
Next ==
    \/ \E s \in Sessions, eu \in BOOLEAN, ep \in BOOLEAN : UserRun(s, eu, ep)
    \/ \E s \in Sessions : Finish(s)
    \/ \E s \in Sessions : Logout(s)
    \/ \E s \in Sessions : \E i \in 1..Len(session[s].plist) : SubscribeCheck(s, i)
    \/ \E s \in Sessions, d \in {0, Step} : SubscribeInsert(s, d)
    \/ \E s \in Sessions : \E c \in Range(session[s].view) , d \in {0, Step} : RenewNow(s, c, d)
    \/ \E s \in Sessions : \E c \in Range(session[s].view) : Renewal(s, c)
    \/ \E s \in Sessions : \E c \in Range(session[s].view) , d \in {0, Step} : CancelActive(s, c, d)
    \/ \E s \in Sessions : \E c \in Range(session[s].view) , d \in {0, Step} : CancelQueued(s, c, d)
    \/ \E s \in Sessions, nav \in {"users", "plans"} : AdminRun(s, nav)
    \/ \E s \in Sessions, plan \in NewPlans : AddPlan(s, plan)
    \/ \E s \in Sessions : \E i \in 1..Len(session[s].plist) : DeletePlanOne(s, i)
    \/ \E s \in Sessions : DeletePlanMany(s)
    \/ \E s \in Sessions : \E i \in 1..Len(session[s].ulist) : DeleteUserOne(s, i)
    \/ \E s \in Sessions : DeleteUserMany(s)

Spec == Init /\ [][Next]_vars

\* the same portal, started when alice already holds a subscription
SpecSubscribed == InitSubscribed /\ [][Next]_vars

\* a new deployment: navigation, registration, login, the dashboards' reads
\* and logout
NextAuth ==
    \/ \E s \in Sessions, p \in {"home", "login", "register"} : Navigate(s, p)
    \/ \E s \in Sessions, u \in AllNames, pw \in LoginPasswords : Login(s, u, pw)
    \/ \E s \in Sessions, u \in Usernames, e \in Emails, pw \in RegPasswords,
          filled \in BOOLEAN : RegisterCheck(s, u, e, pw, filled)
    \/ \E s \in Sessions : RegisterInsert(s)
    \/ \E s \in Sessions, eu \in BOOLEAN, ep \in BOOLEAN : UserRun(s, eu, ep)
    \/ \E s \in Sessions, nav \in {"users", "plans"} : AdminRun(s, nav)
    \/ \E s \in Sessions : Finish(s)
    \/ \E s \in Sessions : Logout(s)

SpecAuth == InitAuth /\ [][NextAuth]_vars

----------------------------------------------------------------------------
\* Steps of the handlers, as seen in a pair of states

ActiveOf(username) ==
    {i \in 1..Len(subs) : subs[i].username = username /\ subs[i].status = "Active"}

HoldsActive(username) == ActiveOf(username) # {}

ActiveOfEmail(email) ==
    {i \in 1..Len(subs) : subs[i].email = email /\ subs[i].status = "Active"}

SubscribeCheckStep(s) == session[s].pc = "run" /\ session'[s].pc = "subscribe"

SubscribeInsertStep(s) == session[s].pc = "subscribe" /\ session'[s].pc = "idle"

HandlerStep(s, names) ==
    /\ session[s].pc = "run"
    /\ session'[s].pc = "idle"
    /\ op'.s = s
    /\ op'.name \in names

RenewNowStep(s) == HandlerStep(s, {"RenewNow"})

CancelStep(s) == HandlerStep(s, {"CancelActive", "CancelQueued"})

DeletePlanManyStep(s) == session[s].pc = "delete_plan" /\ session'[s].pc = "idle"

ListingStep(s) == session[s].pc = "idle" /\ session'[s].pc = "run"

NewRecord == subs'[Len(subs')]

\* the stored record of the last handler
OpRecords == {i \in 1..Len(subs) : subs[i]._id = op.id}

----------------------------------------------------------------------------
\* C1: in every reachable state each user has at most one subscription
\* record with status Active.
C1_AtMostOneActive == \A u \in Usernames : Cardinality(ActiveOf(u)) <= 1

\* C2: a Subscribe by a user without an Active record (none found by the
\* handler's lookup, none stored for the user or the email at the insert)
\* inserts exactly one record, with status Active and end_date exactly
\* start_date plus 30 days.
C2_SubscribeThirtyDays ==
    [][\A s \in Sessions :
        (/\ SubscribeInsertStep(s)
         /\ ~session[s].found
         /\ ~HoldsActive(session[s].username)
         /\ ActiveOfEmail(session[s].user[1].email) = {})
        => /\ subs' = Append(subs, NewRecord)
           /\ NewRecord.status = "Active"
           /\ NewRecord.end_date = NewRecord.start_date + Period]_vars

\* C3: a Subscribe by a user who holds an Active record finds it, inserts
\* exactly one record, Queued with both dates null, for the requested plan
\* (the Active plan included), and leaves every existing record unchanged.
C3_SubscribeQueued ==
    [][\A s \in Sessions :
        /\ (SubscribeCheckStep(s) /\ HoldsActive(session[s].username))
              => session'[s].found
        /\ (SubscribeInsertStep(s) /\ session[s].found)
              => /\ subs' = Append(subs, NewRecord)
                 /\ NewRecord.status = "Queued"
                 /\ NewRecord.start_date = Null
                 /\ NewRecord.end_date = Null
                 /\ NewRecord.username = session[s].username
                 /\ NewRecord.plan = session[s].arg[1].name]_vars

\* a Subscribe has just queued the plan the user already holds as Active
C3_Witness ==
    /\ op.name = "SubscribeInsert"
    /\ \E i \in OpRecords : \E j \in 1..Len(subs) :
          /\ subs[i].status = "Queued"
          /\ subs[i].start_date = Null
          /\ subs[j].status = "Active"
          /\ subs[j].username = subs[i].username
          /\ subs[j].plan = subs[i].plan
          /\ subs[j]._id < subs[i]._id

\* C4: Renew on a record that is Active sets its end_date to the instant of
\* the renewal plus 30 days and changes nothing else of it; no record is
\* created and no other record changes.
C4_RenewExtends ==
    [][\A s \in Sessions : RenewNowStep(s) =>
        /\ Len(subs') = Len(subs)
        /\ \A i \in 1..Len(subs) :
              IF subs[i]._id = op'.id
              THEN subs[i].status = "Active"
                      => subs'[i] = [subs[i] EXCEPT !.end_date = now' + Period]
              ELSE subs'[i] = subs[i]]_vars

\* a Renew has just moved the end_date of an Active record
C4_Witness ==
    /\ op.name = "RenewNow"
    /\ \E i \in OpRecords :
          /\ subs[i].status = "Active"
          /\ subs[i].end_date = now + Period
          /\ subs[i].end_date # subs[i].start_date + Period
    /\ Len(subs) > 1

\* C5: Renew on a record whose stored status is not Active at the moment of
\* the write leaves the record unchanged.
C5_RenewRejectsNonActive ==
    [][\A s \in Sessions : RenewNowStep(s) =>
        \A i \in 1..Len(subs) :
            (subs[i]._id = op'.id /\ subs[i].status # "Active")
               => (Len(subs') = Len(subs) /\ subs'[i] = subs[i])]_vars

\* C6: Cancel on a record that is Active or Queued sets its status to
\* Expired and its end_date to the instant of the cancellation, and changes
\* no other field and no other record.
C6_CancelExpires ==
    [][\A s \in Sessions : CancelStep(s) =>
        /\ Len(subs') = Len(subs)
        /\ \A i \in 1..Len(subs) :
              IF subs[i]._id = op'.id
              THEN subs[i].status \in {"Active", "Queued"}
                      => subs'[i] = [subs[i] EXCEPT !.status = "Expired",
                                                    !.end_date = now']
              ELSE subs'[i] = subs[i]]_vars

\* a Cancel has just expired a Queued record, which never had a start_date
C6_Witness ==
    /\ op.name = "CancelQueued"
    /\ \E i \in OpRecords :
          /\ subs[i].status = "Expired"
          /\ subs[i].start_date = Null
          /\ subs[i].end_date = now
    /\ \E j \in 1..Len(subs) : subs[j].status = "Active"

\* C7: Cancel on a record that is already Expired leaves the stored record
\* as it is, its end_date included.
C7_CancelIdempotent ==
    [][\A s \in Sessions : CancelStep(s) =>
        \A i \in 1..Len(subs) :
            (subs[i]._id = op'.id /\ subs[i].status = "Expired")
               => (Len(subs') = Len(subs) /\ subs'[i] = subs[i])]_vars

\* C8: no step changes a record from Queued to Active, and the Cancel of an
\* Active record leaves every Queued record as it is.
C8_NoPromotion ==
    [][/\ \A i \in 1..Len(subs) : \A j \in 1..Len(subs') :
             (subs[i]._id = subs'[j]._id /\ subs[i].status = "Queued")
                => subs'[j].status # "Active"
       /\ \A s \in Sessions : HandlerStep(s, {"CancelActive"}) =>
             \A i \in 1..Len(subs) :
                 subs[i].status = "Queued" =>
                    (Len(subs') = Len(subs) /\ subs'[i] = subs[i])]_vars

\* Subscribe(P1), Subscribe(P2), Cancel(active) have happened: the first
\* record is Expired, the second still Queued with null dates
C8_Witness ==
    /\ op.name = "CancelActive"
    /\ \E i \in OpRecords : \E j \in 1..Len(subs) :
          /\ subs[i].status = "Expired"
          /\ subs[j].username = subs[i].username
          /\ subs[j].plan # subs[i].plan
          /\ subs[j]._id > subs[i]._id
          /\ subs[j].status = "Queued"
          /\ subs[j].start_date = Null
          /\ subs[j].end_date = Null
    /\ \A k \in 1..Len(subs) : subs[k].status # "Active"

\* C9: the update of DeletePlan(name) sets status Cancelled on every record
\* whose plan is name, whatever its status was, and leaves the status of
\* every other record as it was.
C9_DeletePlanCancels ==
    [][\A s \in Sessions : DeletePlanManyStep(s) =>
        /\ Len(subs') = Len(subs)
        /\ \A i \in 1..Len(subs) :
              IF subs[i].plan = session[s].arg[1]
              THEN subs'[i].status = "Cancelled"
              ELSE subs'[i].status = subs[i].status]_vars

\* a DeletePlan has just cancelled a record and spared one of another plan
C9_Witness ==
    /\ op.name = "DeletePlanMany"
    /\ \E i \in 1..Len(subs) : \E j \in 1..Len(subs) :
          /\ subs[i].plan \in deleted
          /\ subs[i].status = "Cancelled"
          /\ subs[j].plan \notin deleted
          /\ subs[j].status \in {"Active", "Queued", "Expired"}

\* C10: a catalog listing (the admin's plan list, the user's Available
\* Plans) read after DeletePlan(name) completed shows no plan of that name,
\* until a plan of that name is added again.
C10_DeletedPlanNotListed ==
    [][\A s \in Sessions : ListingStep(s) =>
        \A i \in 1..Len(session'[s].plist) :
            session'[s].plist[i].name \notin deleted]_vars

\* C11: the Queued list a user's subscriptions view shows is in ascending
\* record id order, and that is the order in which the records were
\* inserted, whichever sessions inserted them.
C11_QueuedFifo ==
    [][\A s \in Sessions : (ListingStep(s) /\ session[s].page = "user") =>
        LET q == queued_subs_sorted(session'[s].view)
        IN /\ \A i \in 1..Len(q) : \A j \in (i + 1)..Len(q) : q[i]._id < q[j]._id
           /\ q = SelectSeq(subs, LAMBDA d : /\ d.email = session'[s].user[1].email
                                             /\ d.status = "Queued")]_vars

\* a subscriptions view lists two Queued records behind an Active one
C11_Witness ==
    \E s \in Sessions :
        /\ session[s].pc = "run"
        /\ session[s].page = "user"
        /\ Len(queued_subs_sorted(session[s].view)) >= 2
        /\ Len(active_subs(session[s].view)) >= 1

InCatalog(name) == \E i \in 1..Len(plans) : plans[i].name = name

\* C12: a Subscribe for a plan name that is not in the stored catalog when
\* the request is handled is rejected: the handler does not go on to its
\* insert, and no subscription record is inserted.
C12_SubscribeUnknownPlanRejected ==
    [][\A s \in Sessions :
        /\ SubscribeCheckStep(s) => InCatalog(session'[s].arg[1].name)
        /\ (SubscribeInsertStep(s) /\ ~InCatalog(session[s].arg[1].name))
              => subs' = subs]_vars

\* C13: a Subscribe needs a resolved user: a logged out session takes no
\* step, a dashboard run whose user lookup finds nobody ends before any
\* handler and leaves the subscriptions alone, and every insert of Subscribe
\* is made by a logged in session whose user has an email.
C13_SubscribeNeedsIdentity ==
    [][\A s \in Sessions :
        /\ session[s].username = NoName => session'[s] = session[s]
        /\ (/\ session[s].pc = "idle"
            /\ session[s].page = "user"
            /\ session[s].username # NoName
            /\ runs' = runs + 1
            /\ userCache'[session[s].username] = << <<>> >>)
              => (session'[s].pc = "idle" /\ subs' = subs)
        /\ SubscribeInsertStep(s)
              => /\ session[s].role = "user"
                 /\ session[s].username \in Usernames
                 /\ session[s].user # <<>>
                 /\ session[s].user[1].email # ""]_vars

\* the dashboard of a deleted user has been opened and found nobody, while
\* another session has logged out
C13_Witness ==
    /\ \E s \in Sessions :
          /\ session[s].page = "user"
          /\ session[s].pc = "idle"
          /\ userCache[session[s].username] = << <<>> >>
          /\ find_one_username(users, session[s].username) = <<>>
    /\ \E s \in Sessions : session[s].username = NoName

\* C14: a Renew or Cancel whose target record carries another username than
\* the calling session's leaves that record unchanged.
C14_OwnerOnly ==
    [][\A s \in Sessions :
        HandlerStep(s, {"RenewNow", "CancelActive", "CancelQueued"}) =>
            \A i \in 1..Len(subs) :
                (subs[i]._id = op'.id /\ subs[i].username # session[s].username)
                   => (Len(subs') = Len(subs) /\ subs'[i] = subs[i])]_vars

\* C15: Renew-by-requeue on a record that is Active inserts exactly one
\* record, Queued with both dates null and with the username, email, plan,
\* price, speed and data of the Active record, and leaves every existing
\* record, the Active one included, unchanged.
C15_RequeueCopies ==
    [][\A s \in Sessions : HandlerStep(s, {"Renewal"}) =>
        /\ subs' = Append(subs, NewRecord)
        /\ \A i \in 1..Len(subs) : subs[i]._id # NewRecord._id
        /\ \A i \in 1..Len(subs) :
              (subs[i]._id = op'.id /\ subs[i].status = "Active")
                 => /\ NewRecord.status = "Queued"
                    /\ NewRecord.start_date = Null
                    /\ NewRecord.end_date = Null
                    /\ NewRecord.username = subs[i].username
                    /\ NewRecord.email = subs[i].email
                    /\ NewRecord.plan = subs[i].plan
                    /\ NewRecord.price = subs[i].price
                    /\ NewRecord.speed = subs[i].speed
                    /\ NewRecord.data = subs[i].data]_vars

\* a Renew-by-requeue has just queued a copy of a record that is Active
C15_Witness ==
    /\ op.name = "Renewal"
    /\ Len(subs) >= 2
    /\ \E i \in OpRecords :
          /\ subs[i].status = "Active"
          /\ subs[i].start_date # Null
          /\ subs[Len(subs)].status = "Queued"
          /\ subs[Len(subs)].plan = subs[i].plan
          /\ subs[Len(subs)]._id > subs[i]._id

LegalEdge(a, b) ==
    \/ a = b
    \/ <<a, b>> \in {<<"Queued", "Active">>, <<"Active", "Expired">>, <<"Queued", "Expired">>}
    \/ b = "Cancelled"

\* C16: in every step the status of a stored record stays as it is or moves
\* along Queued->Active, Active->Expired or Queued->Expired, or becomes
\* Cancelled in the update of a plan deletion.
C16_LegalEdges ==
    [][\A i \in 1..Len(subs) : \A j \in 1..Len(subs') :
        subs[i]._id = subs'[j]._id =>
            /\ LegalEdge(subs[i].status, subs'[j].status)
            /\ (subs[i].status # "Cancelled" /\ subs'[j].status = "Cancelled")
                  => \E s \in Sessions : DeletePlanManyStep(s)]_vars

\* C17: a record whose status is Cancelled keeps that status in every later
\* step, and a record becomes Cancelled only in the update of a plan
\* deletion.
C17_CancelledTerminal ==
    [][\A i \in 1..Len(subs) : \A j \in 1..Len(subs') :
        subs[i]._id = subs'[j]._id =>
            /\ subs[i].status = "Cancelled" => subs'[j].status = "Cancelled"
            /\ (subs[i].status # "Cancelled" /\ subs'[j].status = "Cancelled")
                  => \E s \in Sessions : DeletePlanManyStep(s)]_vars

\* C18: in every reachable state a Queued record has start_date and end_date
\* both null, an Active record has both set, and an Expired record has its
\* end_date set.
C18_DateNullness ==
    \A i \in 1..Len(subs) :
        /\ subs[i].status = "Queued"
              => (subs[i].start_date = Null /\ subs[i].end_date = Null)
        /\ subs[i].status = "Active"
              => (subs[i].start_date # Null /\ subs[i].end_date # Null)
        /\ subs[i].status = "Expired" => subs[i].end_date # Null

\* an Active record, a Queued record and a record cancelled while Queued
\* are stored together
C18_Witness ==
    \E i \in 1..Len(subs) : \E j \in 1..Len(subs) : \E k \in 1..Len(subs) :
        /\ subs[i].status = "Active"
        /\ subs[j].status = "Queued"
        /\ subs[k].status = "Expired"
        /\ subs[k].start_date = Null
        /\ subs[k].end_date # Null

\* C19: the lookup and the insert of Subscribe are two storage steps and the
\* insert follows the lookup alone: a lookup that finds no Active record is
\* followed by the insert of an Active record whatever has been stored in
\* between, so two requests of one user whose lookups both run before either
\* insert leave the user with two Active records.
C19_SubscribeRace ==
    [][\A s \in Sessions :
        /\ (SubscribeCheckStep(s) /\ ActiveOfEmail(session[s].user[1].email) = {})
              => ~session'[s].found
        /\ (SubscribeInsertStep(s) /\ ~session[s].found)
              => /\ subs' = Append(subs, NewRecord)
                 /\ NewRecord.status = "Active"
                 /\ NewRecord.username = session[s].username
                 /\ \A t \in Sessions \ {s} : session'[t] = session[t]]_vars

\* the second of two interleaved requests has just inserted: the user holds
\* two Active records
C19_Witness ==
    /\ op.name = "SubscribeInsert"
    /\ \E i \in OpRecords : \E j \in 1..Len(subs) :
          /\ j # i
          /\ subs[i].status = "Active"
          /\ subs[j].status = "Active"
          /\ subs[j].username = subs[i].username
          /\ subs[j].email = subs[i].email

DeleteUserManyStep(s) == session[s].pc = "delete_user" /\ session'[s].pc = "idle"

\* C20: a step other than the delete_many of DeleteUser keeps every stored
\* record in its place, and the delete_many of DeleteUser(u) removes every
\* record whose username is u, keeps every other record as it is, and adds
\* none.
C20_RemovedOnlyByDeleteUser ==
    [][/\ (~\E s \in Sessions : DeleteUserManyStep(s))
             => /\ Len(subs') >= Len(subs)
                /\ \A i \in 1..Len(subs) : subs'[i]._id = subs[i]._id
       /\ \A s \in Sessions : DeleteUserManyStep(s) =>
             /\ \A i \in 1..Len(subs) :
                   IF subs[i].username = session[s].arg[1]
                   THEN \A j \in 1..Len(subs') : subs'[j]._id # subs[i]._id
                   ELSE \E j \in 1..Len(subs') : subs'[j] = subs[i]
             /\ \A j \in 1..Len(subs') : \E i \in 1..Len(subs) : subs[i] = subs'[j]
             /\ Len(subs') =
                   Cardinality({i \in 1..Len(subs) : subs[i].username # session[s].arg[1]})
      ]_vars

\* a DeleteUser has just removed the records of one user and kept a record
\* of the other
C20_Witness ==
    /\ op.name = "DeleteUserMany"
    /\ Len(subs) >= 1
    /\ nextId > Len(subs) + 1
    /\ \E u \in Usernames :
          /\ find_one_username(users, u) = <<>>
          /\ \A i \in 1..Len(subs) : subs[i].username # u

Snapshot(d) ==
    [username |-> d.username, email |-> d.email, plan |-> d.plan,
     price |-> d.price, speed |-> d.speed, data |-> d.data]

\* C21: no step changes the username, email, plan, price, speed or data of
\* a stored subscription record.
C21_SnapshotImmutable ==
    [][\A i \in 1..Len(subs) : \A j \in 1..Len(subs') :
        subs[i]._id = subs'[j]._id => Snapshot(subs'[j]) = Snapshot(subs[i])]_vars

\* a plan was deleted and a plan of the same name added at another price:
\* the cancelled record still carries the price it was subscribed at
C21_Witness ==
    /\ op.name = "AddPlan"
    /\ \E i \in 1..Len(subs) : \E k \in 1..Len(plans) :
          /\ subs[i].status = "Cancelled"
          /\ plans[k].name = subs[i].plan
          /\ plans[k].price # subs[i].price

\* C22: in every reachable state no two plans of the catalog have the same
\* name.
C22_PlanNamesUnique ==
    \A i \in 1..Len(plans) : \A j \in 1..Len(plans) :
        i # j => plans[i].name # plans[j].name

\* C23: in every reachable state no two stored users have the same
\* username.
C23_UsernamesUnique ==
    \A i \in 1..Len(users) : \A j \in 1..Len(users) :
        i # j => users[i].username # users[j].username

\* how many entries of a partition carry the record id
Occurs(part, id) == Cardinality({k \in 1..Len(part) : part[k]._id = id})

\* C24: when a user's dashboard reads the subscriptions, every stored record
\* whose username is the user's is in exactly one of the active, queued and
\* expired partitions, and every record in a partition has the user's
\* username.
C24_ListPartition ==
    [][\A s \in Sessions : (ListingStep(s) /\ session[s].page = "user") =>
        LET v == session'[s].view
            parts == active_subs(v) \o queued_subs_sorted(v) \o expired_subs(v)
        IN /\ \A i \in 1..Len(subs) :
                 subs[i].username = session[s].username
                    => Occurs(parts, subs[i]._id) = 1
           /\ \A k \in 1..Len(parts) : parts[k].username = session[s].username]_vars

\* the record at position j after the step was not stored as Active before
BecomesActive(j) ==
    /\ subs'[j].status = "Active"
    /\ \A i \in 1..Len(subs) : subs[i]._id = subs'[j]._id => subs[i].status # "Active"

\* C25: no step creates a record as Active, or turns one Active, while an
\* older record of the same user is Queued.
C25_FifoActivation ==
    [][\A j \in 1..Len(subs') : BecomesActive(j) =>
        \A k \in 1..Len(subs') :
            (subs'[k].username = subs'[j].username /\ subs'[k]._id < subs'[j]._id)
               => subs'[k].status # "Queued"]_vars

\* C26: in every reachable state the plan of every Active or Queued record
\* is in the catalog.
C26_DeletePlanSingleEffect ==
    \A i \in 1..Len(subs) :
        subs[i].status \in {"Active", "Queued"} => InCatalog(subs[i].plan)

\* the stored Active records of the email whose end_date has passed
Lapsed(email) == {i \in ActiveOfEmail(email) : subs[i].end_date < now}

\* C27: the passing of end_date changes nothing: a record that is Active
\* stays Active in every step but a Cancel and the update of a plan
\* deletion, also when the clock has passed its end_date, and a Subscribe
\* whose lookup runs while the user's Active record has lapsed still finds
\* it and inserts a Queued record.
C27_NoTimeExpiry ==
    [][/\ \A i \in 1..Len(subs) : \A j \in 1..Len(subs') :
             (/\ subs[i]._id = subs'[j]._id
              /\ subs[i].status = "Active"
              /\ subs'[j].status # "Active")
                => \E s \in Sessions : CancelStep(s) \/ DeletePlanManyStep(s)
       /\ \A s \in Sessions :
             /\ (SubscribeCheckStep(s) /\ Lapsed(session[s].user[1].email) # {})
                   => session'[s].found
             /\ (SubscribeInsertStep(s) /\ session[s].found)
                   => NewRecord.status = "Queued"]_vars

\* a Subscribe has just queued a request behind an Active record whose
\* end_date has passed
C27_Witness ==
    /\ op.name = "SubscribeInsert"
    /\ \E i \in OpRecords : \E j \in 1..Len(subs) :
          /\ subs[i].status = "Queued"
          /\ subs[j].status = "Active"
          /\ subs[j].username = subs[i].username
          /\ subs[j].end_date < now

Routed(sr) ==
    sr.page \in {"user", "admin"} => (sr.username # NoName /\ sr.role = sr.page)

\* the stored account of an admin page's username has the role admin
AdminStored(sr, U) ==
    sr.page = "admin" =>
        \E i \in 1..Len(U) : U[i].username = sr.username /\ U[i].role = "admin"

LogoutStep(s) ==
    /\ session[s].pc = "run"
    /\ session'[s].pc = "idle"
    /\ op'.name = "Logout"
    /\ op'.s = s

\* C29: before and after every step of navigation, login, registration,
\* dashboard and logout, a session is on a dashboard page only with a
\* username and with the role of that page, the admin page only for a
\* stored account of role admin, and a logout leaves the session on the
\* home page with no username and no role.
C29_SessionRouting ==
    [][\A s \in Sessions :
        /\ Routed(session[s])
        /\ Routed(session'[s])
        /\ AdminStored(session'[s], users')
        /\ (session'[s].page # session[s].page /\ session'[s].page \in {"user", "admin"})
              => /\ session[s].page = "login"
                 /\ \E i \in 1..Len(users') :
                       /\ users'[i].username = session'[s].username
                       /\ users'[i].role = session'[s].page
        /\ LogoutStep(s)
              => /\ session'[s].page = "home"
                 /\ session'[s].username = NoName
                 /\ session'[s].role = NoName]_vars

\* one session has logged in as admin, another has logged in and
\* logged out again
C29_Witness ==
    /\ op.name = "Logout"
    /\ session[op.s].page = "home"
    /\ session[op.s].username = NoName
    /\ \E s \in Sessions :
          /\ session[s].page = "admin"
          /\ session[s].username = "admin"

\* C30: in every reachable state the username of every subscription record
\* is the username of a stored user.
C30_SubscriptionsHaveUsers ==
    \A i \in 1..Len(subs) : find_one_username(users, subs[i].username) # <<>>

====
